---- MODULE Spec2Model ----
(***************************************************************************)
(* Model of src/main.py: the PDF -> page images -> OCR text pipeline.      *)
(*                                                                         *)
(* One run of run_ocr_process is a chain of steps (pc); the file system    *)
(* (the temporary directory with its image files, the output text files)   *)
(* survives from one run to the next, so a later run starts from whatever  *)
(* an earlier run left behind.  File names are sequences of character      *)
(* codes, because process_images orders them with Python's sorted(), which *)
(* compares strings code point by code point.                              *)
(***************************************************************************)
EXTENDS Integers, Sequences, FiniteSets, TLC

\* ------------------------------------------------------------------ bounds
MaxPages == 2       \* small documents have 1..MaxPages pages
MaxRuns == 2        \* consecutive runs over the same file system

\* ------------------------------------------------------- program constants
TEMP_DIR == "tmp_ocr_images"
DEFAULT_OCR_PROMPT == "DEFAULT_OCR_PROMPT"
\* ".png": the extension built from DEFAULT_OUTPUT_FORMAT
DEFAULT_OUTPUT_FORMAT == <<112, 110, 103>>
\* the field width of the page number in f"..._page_{page_num+1:04d}..."
PadWidth == 4

\* The names bound at module level when the program runs (imports, the
\* constants of lines 22-26 and the functions).  A name that is read and is
\* not in this set (nor a builtin) raises NameError.
ModuleGlobals ==
    { "os", "sys", "argparse", "shutil", "Path", "List", "Optional", "Tuple",
      "Dict", "Callable", "partial", "fitz", "genai", "Image", "load_dotenv",
      "TEMP_DIR", "DEFAULT_ZOOM", "DEFAULT_OUTPUT_FORMAT", "GEMINI_MODEL",
      "DEFAULT_OCR_PROMPT",
      "parse_arguments", "get_output_filename", "validate_pdf_exists",
      "convert_page_to_image", "convert_pdf_to_images", "init_genai_client",
      "extract_text_from_image", "process_image", "process_images",
      "clean_temp_directory", "run_ocr_process", "main" }

\* Optional values: None, or Some(v)
None == <<>>
Some(v) == <<v>>
\* "no exception"
NoExc == "NoExc"

\* --------------------------------------------------------- text helpers
\* "_page_"
StrPage == <<95, 112, 97, 103, 101, 95>>
\* "_ocr.txt"
StrOcrTxt == <<95, 111, 99, 114, 46, 116, 120, 116>>
\* "out.txt", the explicit --output path the runs use
StrOutTxt == <<111, 117, 116, 46, 116, 120, 116>>
ChZero == 48
ChMinus == 45
ChDot == 46

RECURSIVE Digits(_)
\* decimal digits of n >= 0, most significant first, as character codes
Digits(n) ==
    IF n < 10 THEN <<ChZero + n>>
    ELSE Digits(n \div 10) \o <<ChZero + (n % 10)>>

RECURSIVE Zeros(_)
Zeros(k) == IF k <= 0 THEN <<>> ELSE <<ChZero>> \o Zeros(k - 1)

\* format(n, "04d"): sign first, then zeros up to PadWidth characters in all;
\* a number that needs more characters is written in full.
Format04d(n) ==
    LET sign == IF n < 0 THEN <<ChMinus>> ELSE <<>>
        dig  == Digits(IF n < 0 THEN -n ELSE n)
    IN  sign \o Zeros(PadWidth - Len(sign) - Len(dig)) \o dig

\* f"{pdf_name}_page_{page_num+1:04d}.{output_format}"
ImageFileName(pdf_name, page_num, output_format) ==
    pdf_name \o StrPage \o Format04d(page_num + 1) \o <<ChDot>> \o output_format

EndsWith(s, suffix) ==
    /\ Len(s) >= Len(suffix)
    /\ SubSeq(s, Len(s) - Len(suffix) + 1, Len(s)) = suffix

\* any(file.lower().endswith(ext) for ext in ['.png', '.jpg', '.jpeg'])
\* (the names of the model are lower case already)
IsImageFile(file) ==
    \/ EndsWith(file, <<46, 112, 110, 103>>)
    \/ EndsWith(file, <<46, 106, 112, 103>>)
    \/ EndsWith(file, <<46, 106, 112, 101, 103>>)

Min(a, b) == IF a < b THEN a ELSE b

\* Python's str "<": the first differing code point decides, a proper prefix
\* is smaller.
StrLess(s, t) ==
    \E k \in 1..(Min(Len(s), Len(t)) + 1) :
        /\ \A j \in 1..(k - 1) : s[j] = t[j]
        /\ \/ k > Len(s) /\ k <= Len(t)
           \/ k <= Len(s) /\ k <= Len(t) /\ s[k] < t[k]

RECURSIVE Sorted(_)
\* sorted(S) for a set of distinct strings
Sorted(S) ==
    IF S = {} THEN <<>>
    ELSE LET m == CHOOSE x \in S : \A y \in S : x = y \/ StrLess(x, y)
         IN  <<m>> \o Sorted(S \ {m})

SeqSet(s) == { s[i] : i \in DOMAIN s }

\* ----------------------------------------------------------- pure code
\* "if x:" for an optional string
Truthy(v) == v # None /\ v[1] # ""

\* get_output_filename
get_output_filename(a) ==
    IF a.output # None /\ a.output[1] # <<>> THEN a.output[1]
    ELSE a.pdf_file.stem \o StrOcrTxt

\* a validate_pdf_exists that lost its check
validate_pdf_exists_unchecked(pdf) == NoExc

\* validate_pdf_exists: the exception it raises, or NoExc
validate_pdf_exists(pdf) ==
    IF pdf.kind = "missing" THEN "FileNotFoundError" ELSE NoExc

\* fitz.open(pdf_path): the exception it raises, or NoExc
fitz_open(pdf) ==
    IF pdf.kind = "ok" THEN NoExc ELSE "FileDataError"

\* pdf_document[page_num]: an index at or past the page count is refused, a
\* negative one counts from the end; the page handed back, or None for
\* IndexError
LoadPage(pdf, page_num) ==
    IF page_num >= pdf.pages THEN None
    ELSE Some(page_num % pdf.pages)

\* start_page, end_page of convert_pdf_to_images
StartPage(first_page) == IF first_page = None THEN 0 ELSE first_page[1]
EndPage(pdf, last_page) ==
    IF last_page = None THEN pdf.pages - 1 ELSE last_page[1]

\* the conversion of the 1-based arguments in run_ocr_process
ZeroBased(page_arg) ==
    IF page_arg = None THEN None ELSE Some(page_arg[1] - 1)

\* an init_genai_client that builds the client without looking at the key
init_genai_client_unchecked(key) == NoExc

\* init_genai_client: the exception it raises, or NoExc
init_genai_client(key) ==
    IF ~Truthy(key) THEN "ValueError" ELSE NoExc

\* the prompt run_ocr_process prepares
PreparePrompt(a) ==
    IF Truthy(a.prompt) THEN <<DEFAULT_OCR_PROMPT, "\n", a.prompt[1]>>
    ELSE <<DEFAULT_OCR_PROMPT>>

\* extract_text_from_image: the prompt is read from the global OCR_PROMPT
\* while the arguments of generate_content are evaluated; the request goes
\* out only if that succeeds, and the answer's text is handed back as it is.
extract_text_from_image(response) ==
    IF "OCR_PROMPT" \notin ModuleGlobals
    THEN [exc |-> "NameError", sent |-> FALSE, prompt |-> <<>>, text |-> None]
    ELSE IF response = Some("APIError")
    THEN [exc |-> "APIError", sent |-> TRUE, prompt |-> <<"OCR_PROMPT">>,
          text |-> None]
    ELSE [exc |-> NoExc, sent |-> TRUE, prompt |-> <<"OCR_PROMPT">>,
          text |-> response]

\* what the service may answer: a text, an empty text, no text, an error
Responses == { Some("text"), Some(""), None, Some("APIError") }

\* f"------------------\n{text}": no text is formatted as the word None
Block(text) ==
    <<"------------------\n", IF text = None THEN "None" ELSE text[1]>>

\* '\n\n'.join(blocks)
RECURSIVE JoinBlocks(_)
JoinBlocks(rs) ==
    IF rs = <<>> THEN <<>>
    ELSE IF Len(rs) = 1 THEN Block(rs[1].text)
    ELSE Block(rs[1].text) \o <<"\n\n">> \o JoinBlocks(Tail(rs))

\* an except clause that reports success
process_images_except_true == TRUE

\* what process_images returns from its except clause
process_images_except == FALSE

\* return 0 if result else 1
ExitCode(result) == IF result THEN 0 ELSE 1

\* what run_ocr_process returns from its except clause
run_ocr_process_except == 1

\* a clean_temp_directory that reads the flag the wrong way round
clean_temp_directory_inverted(keep_images, exists) ==
    IF keep_images /\ exists THEN FALSE ELSE exists

\* clean_temp_directory: whether the directory exists afterwards
clean_temp_directory(keep_images, exists) ==
    IF ~keep_images /\ exists THEN FALSE ELSE exists

\* ---------------------------------------------------------------- inputs
\* the smallest page count whose last page number overflows the padding
BigPages == 10 ^ PadWidth

\* "a", the stem of the PDF path
Stems == { <<97>> }

SmallPdfs ==
    [stem : Stems, kind : {"missing", "corrupt"}, pages : {0}]
    \cup [stem : Stems, kind : {"ok"}, pages : 1..MaxPages]

BigPdfs == [stem : {<<97>>}, kind : {"ok"}, pages : {BigPages}]

\* --first-page / --last-page: absent, or a 1-based number; 0 and
\* MaxPages + 1 are the numbers just outside a small document
SmallPageArgs == {None} \cup { Some(n) : n \in 0..(MaxPages + 1) }

Options ==
    [output : {None, Some(StrOutTxt)}, keep_images : BOOLEAN,
     prompt : {None, Some("extra")}]

MkArgs(pdf, f, l, o) ==
    [pdf_file |-> pdf, first_page |-> f, last_page |-> l, output |-> o.output,
     keep_images |-> o.keep_images, prompt |-> o.prompt]

\* the command lines of the runs: any page flags on the small documents, the
\* last pages of the big one
Args ==
    { MkArgs(pdf, f, l, o) :
        pdf \in SmallPdfs, f \in SmallPageArgs, l \in SmallPageArgs,
        o \in Options }
    \cup
    { MkArgs(pdf, f, l, o) :
        pdf \in BigPdfs, f \in {Some(BigPages - 1), Some(BigPages)},
        l \in {None, Some(BigPages), Some(BigPages + 1)}, o \in Options }

\* ----------------------------------------------------------------- state
VARIABLES
    tmp_exists,     \* whether TEMP_DIR exists
    tmp_files,      \* the files in TEMP_DIR
    out_files,      \* output path -> text written there
    pc,             \* position of the current run
    runs,           \* runs started so far
    args,           \* the parsed command line of the current run
    api_key,        \* GOOGLE_API_KEY as load_dotenv/getenv deliver it
    start_page, end_page, page_num,   \* convert_pdf_to_images
    returned,       \* the list convert_pdf_to_images builds
    prompt,         \* the prompt run_ocr_process prepared
    image_files,    \* process_images: the sorted listing
    results,        \* process_images: (filename, text) pairs
    attempts,       \* the calls of extract_text_from_image of this run
    exc,            \* the exception that ended the run's work, or NoExc
    ret,            \* what run_ocr_process returns
    made_dir,       \* os.makedirs(TEMP_DIR) was called in this run
    tmp_at_start,   \* tmp_exists, tmp_files when the run started
    out_at_start    \* out_files when the run started

vars == <<tmp_exists, tmp_files, out_files, pc, runs, args, api_key,
          start_page, end_page, page_num, returned, prompt, image_files,
          results, attempts, exc, ret, made_dir, tmp_at_start, out_at_start>>

fs == <<tmp_exists, tmp_files, out_files>>
convert_locals == <<start_page, end_page, page_num, returned>>
ocr_locals == <<image_files, results, attempts>>
run_inputs == <<runs, args, api_key, tmp_at_start, out_at_start>>

NoArgs ==
    [pdf_file |-> [stem |-> <<97>>, kind |-> "missing", pages |-> 0],
     first_page |-> None, last_page |-> None, output |-> None,
     keep_images |-> FALSE, prompt |-> None]

Init ==
    /\ tmp_exists = FALSE
    /\ tmp_files = {}
    /\ out_files = <<>>
    /\ pc = "idle"
    /\ runs = 0
    /\ args = NoArgs
    /\ api_key = None
    /\ start_page = 0 /\ end_page = 0 /\ page_num = 0
    /\ returned = <<>>
    /\ prompt = <<>>
    /\ image_files = <<>>
    /\ results = <<>>
    /\ attempts = <<>>
    /\ exc = NoExc
    /\ ret = -1
    /\ made_dir = FALSE
    /\ tmp_at_start = [exists |-> FALSE, files |-> {}]
    /\ out_at_start = <<>>

\* --------------------------------------------------------------- actions
\* main: parse the command line and enter run_ocr_process
Start ==
    /\ pc = "idle"
    /\ runs < MaxRuns
    /\ \E a \in Args, key \in {None, Some("key")} :
        /\ args' = a
        /\ api_key' = key
    /\ runs' = runs + 1
    /\ pc' = "validate"
    /\ start_page' = 0 /\ end_page' = 0 /\ page_num' = 0
    /\ returned' = <<>>
    /\ prompt' = <<>>
    /\ image_files' = <<>>
    /\ results' = <<>>
    /\ attempts' = <<>>
    /\ exc' = NoExc
    /\ ret' = -1
    /\ made_dir' = FALSE
    /\ tmp_at_start' = [exists |-> tmp_exists, files |-> tmp_files]
    /\ out_at_start' = out_files
    /\ UNCHANGED fs

\* the except clause of run_ocr_process
Fail(e) ==
    /\ exc' = e
    /\ ret' = run_ocr_process_except
    /\ pc' = "finally"

\* validate_pdf_exists(args.pdf_file); get_output_filename(args)
Validate ==
    /\ pc = "validate"
    /\ IF validate_pdf_exists(args.pdf_file) # NoExc
       THEN Fail(validate_pdf_exists(args.pdf_file))
       ELSE /\ pc' = "makedirs"
            /\ UNCHANGED <<exc, ret>>
    /\ UNCHANGED <<fs, run_inputs, convert_locals, prompt, ocr_locals, made_dir>>

\* os.makedirs(TEMP_DIR, exist_ok=True) and the 0-based page range
MakeTempDir ==
    /\ pc = "makedirs"
    /\ tmp_exists' = TRUE
    /\ made_dir' = TRUE
    /\ pc' = "open"
    /\ UNCHANGED <<tmp_files, out_files, run_inputs, convert_locals, prompt,
                   ocr_locals, exc, ret>>

\* convert_pdf_to_images up to its loop
ConvertOpen ==
    /\ pc = "open"
    /\ tmp_exists' = TRUE
    /\ made_dir' = TRUE
    /\ IF fitz_open(args.pdf_file) # NoExc
       THEN /\ Fail(fitz_open(args.pdf_file))
            /\ UNCHANGED convert_locals
       ELSE /\ start_page' = StartPage(ZeroBased(args.first_page))
            /\ end_page' = EndPage(args.pdf_file, ZeroBased(args.last_page))
            /\ page_num' = StartPage(ZeroBased(args.first_page))
            /\ returned' = <<>>
            /\ pc' = "convert"
            /\ UNCHANGED <<exc, ret>>
    /\ UNCHANGED <<tmp_files, out_files, run_inputs, prompt, ocr_locals>>

\* one turn of the loop over range(start_page, end_page + 1):
\* convert_page_to_image
ConvertPage ==
    /\ pc = "convert"
    /\ page_num <= end_page
    /\ IF LoadPage(args.pdf_file, page_num) = None
       THEN /\ Fail("IndexError")
            /\ UNCHANGED <<tmp_files, convert_locals>>
       ELSE LET output_file ==
                    ImageFileName(args.pdf_file.stem, page_num,
                                  DEFAULT_OUTPUT_FORMAT)
            IN  /\ tmp_files' = tmp_files \cup {output_file}
                /\ returned' = Append(returned, output_file)
                /\ page_num' = page_num + 1
                /\ UNCHANGED <<start_page, end_page, pc, exc, ret>>
    /\ UNCHANGED <<tmp_exists, out_files, run_inputs, prompt, ocr_locals,
                   made_dir>>

\* the loop is over: convert_pdf_to_images returns and run_ocr_process
\* prepares the prompt
ConvertReturn ==
    /\ pc = "convert"
    /\ page_num > end_page
    /\ prompt' = PreparePrompt(args)
    /\ pc' = "list"
    /\ UNCHANGED <<fs, run_inputs, convert_locals, ocr_locals, exc, ret,
                   made_dir>>

\* process_images: list the directory, keep the images, sort
ListImages ==
    /\ pc = "list"
    /\ image_files' = Sorted({ f \in tmp_files : IsImageFile(f) })
    /\ IF image_files' = <<>>
       THEN /\ ret' = ExitCode(FALSE)
            /\ pc' = "finally"
       ELSE /\ pc' = "client"
            /\ UNCHANGED ret
    /\ UNCHANGED <<fs, run_inputs, convert_locals, prompt, results, attempts,
                   exc, made_dir>>

\* process_images: init_genai_client
InitClient ==
    /\ pc = "client"
    /\ IF init_genai_client(api_key) # NoExc
       THEN /\ exc' = init_genai_client(api_key)
            /\ ret' = ExitCode(process_images_except)
            /\ pc' = "finally"
       ELSE /\ pc' = "ocr"
            /\ UNCHANGED <<exc, ret>>
    /\ UNCHANGED <<fs, run_inputs, convert_locals, prompt, ocr_locals, made_dir>>

\* process_images: one turn of the loop over the sorted images
\* (process_image, extract_text_from_image); after the last turn the
\* results are joined and written
ProcessImage ==
    /\ pc = "ocr"
    /\ \E response \in Responses :
        LET image_path == image_files[Len(results) + 1]
            r == extract_text_from_image(response)
            rs == Append(results, [filename |-> image_path, text |-> r.text])
            output_file == get_output_filename(args)
        IN  /\ attempts' = Append(attempts,
                    [image |-> image_path, exc |-> r.exc, sent |-> r.sent,
                     prompt |-> r.prompt])
            /\ IF r.exc # NoExc
               THEN /\ exc' = r.exc
                    /\ ret' = ExitCode(process_images_except)
                    /\ pc' = "finally"
                    /\ UNCHANGED <<results, out_files>>
               ELSE /\ results' = rs
                    /\ IF Len(rs) = Len(image_files)
                       THEN /\ out_files' =
                                [p \in DOMAIN out_files \cup {output_file} |->
                                    IF p = output_file THEN JoinBlocks(rs)
                                    ELSE out_files[p]]
                            /\ ret' = ExitCode(TRUE)
                            /\ pc' = "finally"
                       ELSE UNCHANGED <<out_files, ret, pc>>
                    /\ UNCHANGED exc
    /\ UNCHANGED <<tmp_exists, tmp_files, run_inputs, convert_locals, prompt,
                   image_files, made_dir>>

\* the finally clause: clean_temp_directory(args.keep_images), then return
Finally ==
    /\ pc = "finally"
    /\ tmp_exists' = clean_temp_directory(args.keep_images, tmp_exists)
    /\ tmp_files' = IF tmp_exists' THEN tmp_files ELSE {}
    /\ pc' = "done"
    /\ UNCHANGED <<out_files, run_inputs, convert_locals, prompt, ocr_locals,
                   exc, ret, made_dir>>

\* sys.exit(run_ocr_process(args)): the process ends, the files stay
Exit ==
    /\ pc = "done"
    /\ pc' = "idle"
    /\ args' = NoArgs
    /\ api_key' = None
    /\ start_page' = 0 /\ end_page' = 0 /\ page_num' = 0
    /\ returned' = <<>>
    /\ prompt' = <<>>
    /\ image_files' = <<>>
    /\ results' = <<>>
    /\ attempts' = <<>>
    /\ exc' = NoExc
    /\ ret' = -1
    /\ made_dir' = FALSE
    /\ tmp_at_start' = [exists |-> FALSE, files |-> {}]
    /\ out_at_start' = <<>>
    /\ UNCHANGED <<fs, runs>>

Next ==
    \/ Start
    \/ Validate
    \/ MakeTempDir
    \/ ConvertOpen
    \/ ConvertPage
    \/ ConvertReturn
    \/ ListImages
    \/ InitClient
    \/ ProcessImage
    \/ Finally
    \/ Exit

Spec == Init /\ [][Next]_vars

TypeOK ==
    /\ tmp_exists \in BOOLEAN
    /\ pc \in {"idle", "validate", "makedirs", "open", "convert", "list",
               "client", "ocr", "finally", "done"}
    /\ runs \in 0..MaxRuns
    /\ ret \in {-1, 0, 1}
    /\ tmp_files # {} => tmp_exists

\* ---------------------------------------------------------------- claims
InRun == pc # "idle"
Finished == pc = "done"
PdfIsFile == args.pdf_file.kind # "missing"
Pages == args.pdf_file.pages
ResolvedFirst == StartPage(ZeroBased(args.first_page))
ResolvedLast == EndPage(args.pdf_file, ZeroBased(args.last_page))
ValidRange ==
    0 <= ResolvedFirst /\ ResolvedFirst <= ResolvedLast /\ ResolvedLast < Pages
AttemptedImages == { attempts[i].image : i \in DOMAIN attempts }
FailedAttempts == { i \in DOMAIN attempts : attempts[i].exc # NoExc }
OutputUntouched == out_files = out_at_start

\* C1: when run_ocr_process has finished, on whatever path, the temporary
\* directory does not exist unless keep_images was requested, also when it
\* existed before the run.
C1_Cleanup ==
    Finished /\ ~args.keep_images => ~tmp_exists /\ tmp_files = {}

\* a failed run without keep_images that found the directory, with images
\* of an earlier run in it, and removed it
C1_Witness ==
    /\ Finished /\ ~args.keep_images
    /\ tmp_at_start.exists /\ tmp_at_start.files # {}
    /\ exc = "NameError" /\ ret = 1
    /\ ~tmp_exists

\* C2: a run on an existing N-page PDF with no page flags, no images in the
\* temporary directory at start, a credential and a service that answers
\* every image with text returns 0 and writes N text blocks in page order.
C2_FullRun ==
    ( /\ Finished
      /\ args.pdf_file.kind = "ok"
      /\ args.first_page = None /\ args.last_page = None
      /\ tmp_at_start.files = {}
      /\ Truthy(api_key)
      /\ \A i \in DOMAIN attempts : attempts[i].exc # "APIError"
      /\ \A i \in DOMAIN results : results[i].text = Some("text") )
    => /\ ret = 0
       /\ get_output_filename(args) \in DOMAIN out_files
       /\ out_files[get_output_filename(args)] =
            JoinBlocks([i \in 1..Pages |->
                [filename |-> ImageFileName(args.pdf_file.stem, i - 1,
                                            DEFAULT_OUTPUT_FORMAT),
                 text |-> Some("text")]])

\* C3: for a valid resolved range convert_pdf_to_images writes and returns
\* last - first + 1 files, one per page in ascending page order, and the
\* file names sort in page order.
C3_Rasterizer ==
    pc = "list" /\ ValidRange
    => /\ Len(returned) = ResolvedLast - ResolvedFirst + 1
       /\ \A i \in DOMAIN returned :
            /\ returned[i] = ImageFileName(args.pdf_file.stem,
                                           ResolvedFirst + i - 1,
                                           DEFAULT_OUTPUT_FORMAT)
            /\ returned[i] \in tmp_files
       /\ \A i, j \in DOMAIN returned :
            i < j => StrLess(returned[i], returned[j])

\* C4: with a PDF path that names no file the run returns 1 and never
\* creates the temporary directory, rasterizes a page, calls the
\* recognition client or writes an output file.
C4_MissingPdf ==
    InRun /\ ~PdfIsFile
    => /\ ~made_dir
       /\ tmp_exists => tmp_at_start.exists
       /\ tmp_files \subseteq tmp_at_start.files
       /\ returned = <<>>
       /\ attempts = <<>>
       /\ OutputUntouched
       /\ Finished => ret = 1

\* a finished run that validate_pdf_exists stopped
C4_Witness ==
    /\ Finished /\ ~PdfIsFile
    /\ exc = "FileNotFoundError" /\ ret = 1
    /\ ~made_dir

\* C5: without the credential a run on an existing PDF returns 1, makes no
\* recognition call, leaves the output file alone and, without keep_images,
\* leaves no temporary directory.
C5_NoCredential ==
    InRun /\ PdfIsFile /\ ~Truthy(api_key)
    => /\ attempts = <<>>
       /\ OutputUntouched
       /\ Finished => /\ ret = 1
                      /\ ~args.keep_images => ~tmp_exists

\* a finished run that rasterized its pages and then failed for the
\* missing credential
C5_Witness ==
    /\ Finished /\ PdfIsFile /\ ~Truthy(api_key)
    /\ exc = "ValueError" /\ ret = 1
    /\ returned # <<>> /\ image_files # <<>>
    /\ ~args.keep_images /\ ~tmp_exists

\* C6: when the recognition call for an image raises, the batch fails: the
\* image is not tried again, no later image is handed over, the output file
\* is left alone and the run returns 1.
C6_FatalError ==
    FailedAttempts # {}
    => /\ FailedAttempts = {Len(attempts)}
       /\ \A i, j \in DOMAIN attempts :
            attempts[i].image = attempts[j].image => i = j
       /\ OutputUntouched
       /\ ret = 1

\* a finished run with several images whose first recognition call raised
C6_Witness ==
    /\ Finished
    /\ Len(image_files) >= 2
    /\ Len(attempts) = 1 /\ attempts[1].exc # NoExc
    /\ attempts[1].image = image_files[1]
    /\ ret = 1

\* C7: a page is rendered only under a resolved range with
\* 0 <= first <= last < pageCount; with any other range the rasterizer fails
\* and the run returns 1 without a recognition call.
C7_RangeChecked ==
    InRun /\ args.pdf_file.kind = "ok"
    => /\ returned # <<>> => ValidRange
       /\ Finished /\ ~ValidRange
            => /\ exc \in {"IndexError", "ValueError"}
               /\ ret = 1
               /\ attempts = <<>>

\* C9: every recognition call carries the prompt run_ocr_process prepared:
\* the fixed prompt, with the --prompt text appended when given.
C9_PromptUsed ==
    \A i \in DOMAIN attempts :
        /\ attempts[i].prompt = prompt
        /\ prompt = PreparePrompt(args)

\* C10: the images handed to recognition are exactly the files the
\* rasterizer produced in this run; images left in the temporary directory
\* by an earlier run are never recognized and add no block to the output.
C10_OnlyThisRun ==
    InRun
    => /\ AttemptedImages \subseteq SeqSet(returned)
       /\ Finished /\ ret = 0
            => /\ AttemptedImages = SeqSet(returned)
               /\ Len(results) = Len(returned)
====
